---- MODULE Spec2Model ----
(***************************************************************************)
(* A model of the fvrs-core engine (crates/fvrs-core/src/lib.rs):          *)
(* MonitoringHistory, MonitoringFilter and the monitoring, search and      *)
(* comparison operations of core::FileSystem.                              *)
(*                                                                         *)
(* Strings (paths, names, extensions, glob patterns, file contents) are    *)
(* sequences of one-character strings, so that the code's string           *)
(* operations (extension(), to_lowercase(), glob and regex matching, line  *)
(* splitting) are computed and not assumed.                                *)
(*                                                                         *)
(* The module holds one specification per subsystem; the variables of the  *)
(* other subsystems keep their initial value in each of them.              *)
(***************************************************************************)
EXTENDS Integers, Sequences, FiniteSets, TLC

\* ------------------------------------------------------------------ bounds
\* Largest history capacity (max_events) tried.
MaxCap == 2
\* Largest number of add_event calls on one MonitoringHistory.
MaxAdds == 4
\* Largest clock reading, in milliseconds.
MaxClock == 2
\* The non-zero debounce interval tried, in milliseconds.
MaxDebounce == 2
\* Largest number of raw notifications the OS delivers to one watcher.
MaxNotifs == 2

\* Largest number of entries a directory walk yields.
MaxEntries == 3
\* Largest result cap (max_results) tried.
MaxResults == 2

\* Largest number of bytes one read of compare_binary returns (the buffer
\* size, scaled to the sizes of the files tried).
ChunkMax == 2

\* The settings of the CLI monitor command.
CliMaxHistory == 1000
CliDebounceMs == 100

\* ------------------------------------------------------------------ strings
\* Option<T>: None is the empty sequence, Some(x) the one-element sequence.
None == <<>>
Some(x) == <<x>>
IsSome(o) == o # <<>>
Unwrap(o) == o[1]

\* str::to_lowercase on the letters the inputs use.
LowerChar(c) ==
    CASE c = "T" -> "t"
      [] c = "X" -> "x"
      [] c = "A" -> "a"
      [] c = "B" -> "b"
      [] OTHER -> c
to_lowercase(s) == [i \in 1..Len(s) |-> LowerChar(s[i])]

\* Index of the last occurrence of character c in s, 0 when there is none.
LastIndexOf(s, c) ==
    LET hits == {i \in 1..Len(s) : s[i] = c}
    IN  IF hits = {} THEN 0 ELSE CHOOSE i \in hits : \A j \in hits : j <= i

\* Path::file_name: the last component of the path.
file_name(path) == SubSeq(path, LastIndexOf(path, "/") + 1, Len(path))

\* Path::extension: the part of the file name after its last dot; None when
\* the name has no dot or only a leading one.
extension(path) ==
    LET name == file_name(path)
        dot == LastIndexOf(name, ".")
    IN  IF dot <= 1 THEN None ELSE Some(SubSeq(name, dot + 1, Len(name)))

\* Extensions used as inputs.
Ext_txt == <<"t", "x", "t">>
Ext_log == <<"l", "o", "g">>

\* Paths used as inputs.
P_x_txt == <<"x", ".", "t", "x", "t">>
P_x_log == <<"x", ".", "l", "o", "g">>
P_x_TXT == <<"x", ".", "T", "X", "T">>
P_noext == <<"m", "k">>
P_dotfile == <<".", "t", "x", "t">>
P_dir_file == <<"a", ".", "b", "/", "c">>

\* ------------------------------------------------------------------ state
VARIABLES
    history,     \* MonitoringHistory: [events, max_events]
    added,       \* every event passed to add_event since the history was built
    savedFile,   \* Option: the document written by save_to_file
    fFilter,     \* MonitoringFilter given to matches
    fPath,       \* path given to matches
    fResult,     \* Option: the value matches returned
    settings,    \* MonitoringSettings given to start_monitoring_with_settings
    fileMeta,    \* per path: Option size, what fs::metadata(path) yields
    callerPc,    \* where the caller of the facade is
    api,         \* the start operation called: "none", "watch_directory", "settings"
    startResult, \* what the start operation returned: "none", "ok", "err"
    watcher,     \* the OS watcher: "none", "created", "watching", "dropped"
    event_sender,\* FileSystem.event_sender: Option channel endpoint
    eventQueue,  \* FsEvents in the channel of event_sender
    rawQueue,    \* raw notifications in the channel to the processing task
    taskPc,      \* the spawned task: "none", "running", "ended", "panicked"
    last_event_time, \* per path: Option time of the last accepted event
    clock,       \* the system clock
    outcome,     \* how the task left its last loop iteration
    callbackPanicked, \* the watcher callback's send(..).unwrap() failed
    notifs,      \* raw notifications delivered so far
    delivered,   \* the events next_event returned, in order
    tree,        \* the entries WalkDir yields below current_dir, in order
    sOp,         \* the search operation called and its argument
    sOptions,    \* SearchOptions of the running search_files call
    sPc,         \* "idle", "walking", "done" (Ok) or "err" (Err)
    sIdx,        \* index in tree of the next entry of the walk
    results,     \* the result vector
    cCall,       \* the comparison called: operation, left, right, mode
    cPc,         \* "idle", "ok" (Ok(result)) or "err" (Err)
    cResult,     \* the ComparisonResult returned
    lDir,        \* the directory given to list_files: readable, children
    lPc,         \* "idle", "walking", "ok" (Ok(entries)) or "err" (Err)
    lIdx,        \* position of list_files in the children
    entries,     \* the entries vector of list_files
    hCall,       \* calculate_directory_hash called: the walk, the algorithm
    hPc,         \* "idle", "ok" (Ok(result)) or "err" (Err)
    hResult      \* the HashResult returned

histVars == <<history, added, savedFile>>
filterVars == <<fFilter, fPath, fResult>>
\* The monitor's variables besides its history.
monVars == <<settings, fileMeta, callerPc, api, startResult, watcher,
             event_sender, eventQueue, rawQueue, taskPc, last_event_time,
             clock, outcome, callbackPanicked, notifs, delivered>>
searchVars == <<tree, sOp, sOptions, sPc, sIdx, results>>
cmpVars == <<cCall, cPc, cResult>>
listVars == <<lDir, lPc, lIdx, entries>>
hashVars == <<hCall, hPc, hResult>>
vars ==
    <<histVars, filterVars, monVars, searchVars, cmpVars, listVars, hashVars>>
\* What each subsystem leaves alone.
notHist ==
    <<filterVars, monVars, searchVars, cmpVars, listVars, hashVars>>
notFilter ==
    <<histVars, monVars, searchVars, cmpVars, listVars, hashVars>>
notMon ==
    <<added, savedFile, filterVars, searchVars, cmpVars, listVars, hashVars>>
notSearch ==
    <<histVars, filterVars, monVars, cmpVars, listVars, hashVars>>
notCmp ==
    <<histVars, filterVars, monVars, searchVars, listVars, hashVars>>
notList ==
    <<histVars, filterVars, monVars, searchVars, cmpVars, hashVars>>
notHash ==
    <<histVars, filterVars, monVars, searchVars, cmpVars, listVars>>

\* ------------------------------------------------- MonitoringHistory (pure)
\* FsEvent values used as inputs of the history operations.
HistEventPool ==
    { [event_type |-> "Create", path |-> P_x_txt, timestamp |-> 0],
      [event_type |-> "Modify", path |-> P_x_txt, timestamp |-> 1],
      [event_type |-> "Remove", path |-> P_x_log, timestamp |-> 2] }

\* MonitoringHistory::new
new(max_events) == [events |-> <<>>, max_events |-> max_events]

\* VecDeque::pop_front: removes the first element, a no-op on an empty deque.
pop_front(q) == IF q = <<>> THEN q ELSE Tail(q)

\* A history that evicts only when the length exceeds the capacity.
add_event_off_by_one(self, event) ==
    LET kept == IF Len(self.events) > self.max_events
                THEN pop_front(self.events) ELSE self.events
    IN  [self EXCEPT !.events = Append(kept, event)]

\* MonitoringHistory::add_event
add_event(self, event) ==
    LET kept == IF Len(self.events) >= self.max_events
                THEN pop_front(self.events) ELSE self.events
    IN  [self EXCEPT !.events = Append(kept, event)]

\* The loop of load_from_file: add_event for each event of the document.
RECURSIVE add_all(_, _)
add_all(self, evs) ==
    IF evs = <<>> THEN self ELSE add_all(add_event(self, Head(evs)), Tail(evs))

\* MonitoringHistory::load_from_file on a readable document
load_from_file(doc, max_events) == add_all(new(max_events), doc)

\* ------------------------------------------------- MonitoringFilter (pure)
\* Glob patterns used as inputs.
G_star_txt == <<"*", ".", "t", "x", "t">>
G_x_star == <<"x", "*">>
G_q_dot_star == <<"?", ".", "*">>
G_unclosed == <<"[">>

\* glob::Pattern::new fails on an unclosed character class.
PatternNewOk(pattern) == \A i \in 1..Len(pattern) : pattern[i] # "["

\* glob::Pattern::matches with the default options: case sensitive, "*"
\* matches any run of characters (separators included), "?" exactly one.
RECURSIVE PatternMatches(_, _)
PatternMatches(pattern, str) ==
    IF pattern = <<>> THEN str = <<>>
    ELSE IF Head(pattern) = "*"
         THEN \E k \in 0..Len(str) :
                 PatternMatches(Tail(pattern), SubSeq(str, k + 1, Len(str)))
         ELSE /\ str # <<>>
              /\ (Head(pattern) = "?" \/ Head(pattern) = Head(str))
              /\ PatternMatches(Tail(pattern), Tail(str))

\* glob::Pattern::new(pattern).map(|p| p.matches(path)).unwrap_or(false)
GlobHit(pattern, path) == PatternNewOk(pattern) /\ PatternMatches(pattern, path)

AnyPattern(patterns, path) ==
    \E i \in 1..Len(patterns) : GlobHit(patterns[i], path)

\* MonitoringFilter::new
MonitoringFilter_new ==
    [include_patterns |-> <<>>, exclude_patterns |-> <<>>, event_types |-> {},
     min_size |-> None, max_size |-> None, extensions |-> {}]

\* matches without the extension check.
matches_no_extension_check(self, path) ==
    /\ (self.include_patterns # <<>> => AnyPattern(self.include_patterns, path))
    /\ ~AnyPattern(self.exclude_patterns, path)

\* MonitoringFilter::matches
matches(self, path) ==
    IF self.include_patterns # <<>> /\ ~AnyPattern(self.include_patterns, path)
    THEN FALSE
    ELSE IF AnyPattern(self.exclude_patterns, path)
    THEN FALSE
    ELSE IF /\ self.extensions # {}
            /\ IsSome(extension(path))
            /\ Unwrap(extension(path)) \notin self.extensions
    THEN FALSE
    ELSE TRUE

\* ------------------------------------------------- monitoring (pure)
AllEventTypes == {"Create", "Modify", "Remove", "Rename", "Access", "Metadata"}

\* The paths raw notifications carry.
MonPaths == {P_x_txt, P_x_log, P_noext}

\* Raw notifications: notify::Event { kind, paths }. Modify_Name stands for
\* EventKind::Modify(ModifyKind::Name(_)), Modify_Data for every other Modify.
RawEvents ==
    { [kind |-> "Create", paths |-> <<P_x_txt>>],
      [kind |-> "Modify_Data", paths |-> <<P_x_txt>>],
      [kind |-> "Modify_Name", paths |-> <<P_x_txt, P_x_log>>],
      [kind |-> "Remove", paths |-> <<P_x_log>>],
      [kind |-> "Access", paths |-> <<P_noext>>],
      [kind |-> "Other", paths |-> <<P_x_txt>>],
      [kind |-> "Modify_Data", paths |-> <<>>] }

\* The match on event.kind in start_monitoring_with_settings; arms are tried
\* in order, so Modify(_) takes every Modify kind. None is `continue`.
event_type_of(kind) ==
    CASE kind = "Create" -> Some("Create")
      [] kind \in {"Modify_Data", "Modify_Name"} -> Some("Modify")
      [] kind = "Remove" -> Some("Remove")
      [] kind = "Access" -> Some("Access")
      [] OTHER -> None

\* The size check of the processing task: metadata is Option size.
size_ok(filter, metadata) ==
    IF IsSome(metadata)
    THEN /\ (IsSome(filter.min_size) => ~(Unwrap(metadata) < Unwrap(filter.min_size)))
         /\ (IsSome(filter.max_size) => ~(Unwrap(metadata) > Unwrap(filter.max_size)))
    ELSE TRUE

\* A debounce test that also drops a notification exactly debounce_ms late.
debounced_inclusive(now, last_time, debounce_ms) == now - last_time <= debounce_ms

\* The debounce test: now.duration_since(last_time) < debounce_ms.
debounced(now, last_time, debounce_ms) == now - last_time < debounce_ms

\* An event-kind test under which an empty set accepts every kind.
kind_allowed_empty_means_all(filter, event_type) ==
    filter.event_types = {} \/ event_type \in filter.event_types

\* The event-kind test of the task: settings.filter.event_types.contains(..).
kind_allowed(filter, event_type) == event_type \in filter.event_types

\* last_event_time.insert(path, now)
insert(last, path, now) == [last EXCEPT ![path] = Some(now)]

\* One iteration of the task's loop on a received notification: the way it
\* leaves the iteration and the new debounce map and history.
handle(event, now, st, metas, last, hist) ==
    LET stay(o) == [outcome |-> o, last_event_time |-> last, history |-> hist]
    IN  IF event.paths = <<>> THEN stay("panic_no_path")
        ELSE LET path == event.paths[1]
                 ty == event_type_of(event.kind)
             IN  IF ~matches(st.filter, path) THEN stay("filtered")
                 ELSE IF ty = None THEN stay("other_kind")
                 ELSE IF ~kind_allowed(st.filter, Unwrap(ty))
                      THEN stay("type_rejected")
                 ELSE IF ~size_ok(st.filter, metas[path]) THEN stay("size_rejected")
                 ELSE IF IsSome(last[path]) /\ now < Unwrap(last[path])
                      THEN stay("panic_clock")
                 ELSE IF /\ IsSome(last[path])
                         /\ debounced(now, Unwrap(last[path]), st.debounce_ms)
                      THEN stay("debounced")
                 ELSE [outcome |-> "accepted",
                       last_event_time |-> insert(last, path, now),
                       history |-> add_event(hist,
                           [event_type |-> Unwrap(ty), path |-> path,
                            timestamp |-> now])]

\* The callback of watch_directory: the FsEvents sent for one notification.
wd_events(event, now) ==
    LET ty == CASE event.kind = "Create" -> Some("Create")
                [] event.kind \in {"Modify_Data", "Modify_Name"} -> Some("Modify")
                [] event.kind = "Remove" -> Some("Remove")
                [] OTHER -> None
    IN  IF ty = None THEN <<>>
        ELSE [i \in 1..Len(event.paths) |->
                 [event_type |-> Unwrap(ty), path |-> event.paths[i],
                  timestamp |-> now]]

\* mpsc::Receiver::recv blocks while the channel is empty and a sender lives.
recv_blocks(queue, senders) == queue = <<>> /\ senders > 0

\* The settings tried.
Filter_all == [MonitoringFilter_new EXCEPT !.event_types = AllEventTypes]
Filter_strict ==
    [include_patterns |-> <<G_x_star>>, exclude_patterns |-> <<G_unclosed>>,
     event_types |-> {"Create", "Rename"}, min_size |-> Some(1),
     max_size |-> Some(1), extensions |-> {Ext_txt}]
Filter_txt_only ==
    [MonitoringFilter_new EXCEPT !.event_types = AllEventTypes,
                                 !.extensions = {Ext_txt}]
MonSettings ==
    { [filter |-> Filter_txt_only, max_history |-> 1, debounce_ms |-> MaxDebounce],
      [filter |-> MonitoringFilter_new, max_history |-> CliMaxHistory,
       debounce_ms |-> CliDebounceMs],
      [filter |-> Filter_all, max_history |-> MaxCap, debounce_ms |-> MaxDebounce],
      [filter |-> Filter_all, max_history |-> 1, debounce_ms |-> 0],
      [filter |-> Filter_strict, max_history |-> MaxCap, debounce_ms |-> MaxDebounce] }

\* What fs::metadata yields per path: unreadable, or a size.
MetaChoices ==
    { [p \in MonPaths |-> None],
      [p \in MonPaths |-> Some(1)],
      [p \in MonPaths |-> IF p = P_x_txt THEN Some(2) ELSE Some(0)] }

\* ------------------------------------------------- search (pure)
\* str ends with suffix.
EndsWith(str, suffix) ==
    /\ Len(suffix) <= Len(str)
    /\ SubSeq(str, Len(str) - Len(suffix) + 1, Len(str)) = suffix

\* part occurs in str.
Contains(str, part) ==
    \E k \in 0..(Len(str) - Len(part)) : SubSeq(str, k + 1, k + Len(part)) = part

\* Search patterns. "literal" is a regex of plain characters (an unanchored
\* search for them, the empty one matching everything), "ext" the regex
\* \.<text>$ that find_files_by_extension builds, "invalid" a pattern
\* Regex::new rejects.
Lit(text) == [kind |-> "literal", text |-> text]
ExtRegex(ext) == [kind |-> "ext", text |-> ext]
InvalidRegex == [kind |-> "invalid", text |-> <<"(">>]

\* Regex::new(..) succeeds.
regex_ok(pattern) == pattern.kind # "invalid"

\* Regex::is_match; without case_sensitive the regex is compiled with (?i).
is_match(pattern, case_sensitive, text) ==
    LET t == IF case_sensitive THEN text ELSE to_lowercase(text)
        q == IF case_sensitive THEN pattern.text ELSE to_lowercase(pattern.text)
    IN  IF pattern.kind = "ext" THEN EndsWith(t, <<".">> \o q)
        ELSE Contains(t, q)

\* The extension check of search_files: an entry with an extension is kept
\* only if the list contains the extension lower-cased; the list is compared
\* as given.
extension_allowed(extensions, name) ==
    \/ extensions = None
    \/ extension(name) = None
    \/ \E i \in 1..Len(Unwrap(extensions)) :
          Unwrap(extensions)[i] = to_lowercase(Unwrap(extension(name)))

\* The cap test at the head of the loop, letting one entry too many through.
cap_reached_late(options, res) ==
    IsSome(options.max_results) /\ Len(res) > Unwrap(options.max_results)

\* The cap test at the head of the loop: results.len() >= max_results.
cap_reached(options, res) ==
    IsSome(options.max_results) /\ Len(res) >= Unwrap(options.max_results)

\* The body of the loop of search_files after the cap test, for one entry:
\* the new result vector.
search_entry(options, entry, res) ==
    IF ~extension_allowed(options.extensions, entry.name) THEN res
    ELSE IF is_match(options.pattern, options.case_sensitive, entry.name)
         THEN IF entry.meta_ok THEN Append(res, entry.path) ELSE res
    ELSE IF /\ options.search_contents
            /\ ~entry.is_dir
            /\ IsSome(entry.contents)
            /\ is_match(options.pattern, options.case_sensitive,
                        Unwrap(entry.contents))
            /\ entry.meta_ok
         THEN Append(res, entry.path)
    ELSE res

\* WalkDir with min_depth(1) and the optional max_depth, filtered by
\* e.ok(): whether the walk hands the entry to the loop.
yielded(options, entry) ==
    /\ entry.walk_ok
    /\ (IsSome(options.max_depth) => entry.depth <= Unwrap(options.max_depth))

\* SearchOptions of find_files(pattern)
find_files_options(pattern) ==
    [pattern |-> Lit(pattern), search_contents |-> FALSE,
     case_sensitive |-> FALSE, max_depth |-> None, extensions |-> None,
     max_results |-> None]

\* SearchOptions of find_files_by_extension(extension)
find_files_by_extension_options(ext) ==
    [pattern |-> ExtRegex(ext), search_contents |-> FALSE,
     case_sensitive |-> FALSE, max_depth |-> None,
     extensions |-> Some(<<ext>>), max_results |-> None]

\* The entries a walk can yield.
N_a_txt == <<"a", ".", "t", "x", "t">>
N_b_txt == <<"b", ".", "t", "x", "t">>
N_c_TXT == <<"c", ".", "T", "X", "T">>
N_d == <<"d">>
N_e_log == <<"e", ".", "l", "o", "g">>
Ext_TXT == <<"T", "X", "T">>
EntryPool ==
    { [name |-> N_a_txt, path |-> N_a_txt, depth |-> 1, is_dir |-> FALSE,
       walk_ok |-> TRUE, meta_ok |-> TRUE,
       contents |-> Some(<<"h", "e", "l", "l", "o">>)],
      [name |-> N_b_txt, path |-> N_b_txt, depth |-> 1, is_dir |-> FALSE,
       walk_ok |-> TRUE, meta_ok |-> TRUE,
       contents |-> Some(<<"w", "o", "r", "l", "d">>)],
      [name |-> N_d, path |-> N_d, depth |-> 1, is_dir |-> TRUE,
       walk_ok |-> TRUE, meta_ok |-> TRUE, contents |-> None],
      [name |-> N_c_TXT, path |-> N_d \o <<"/">> \o N_c_TXT, depth |-> 2,
       is_dir |-> FALSE, walk_ok |-> TRUE, meta_ok |-> TRUE,
       contents |-> Some(<<"a", "\n", "b">>)],
      [name |-> N_e_log, path |-> N_d \o <<"/">> \o N_e_log, depth |-> 2,
       is_dir |-> FALSE, walk_ok |-> TRUE, meta_ok |-> FALSE,
       contents |-> None],
      [name |-> P_dotfile, path |-> P_dotfile, depth |-> 1, is_dir |-> FALSE,
       walk_ok |-> FALSE, meta_ok |-> FALSE, contents |-> None] }

\* Walks: entries in traversal order, none twice, the entries of directory
\* d after d itself.
Walks ==
    { w \in UNION { [1..n -> EntryPool] : n \in 0..MaxEntries } :
        /\ \A i, j \in 1..Len(w) : i # j => w[i] # w[j]
        /\ \A i \in 1..Len(w) :
              w[i].depth = 2 => \E j \in 1..(i - 1) : w[j].name = N_d }

\* The search calls tried.
SearchCalls ==
    { [op |-> "find_files_by_extension", arg |-> e] : e \in {Ext_txt, Ext_TXT, Ext_log} }
    \cup { [op |-> "find_files", arg |-> t] : t \in {<<>>, <<"A">>} }
    \cup { [op |-> "search_files",
            arg |-> [pattern |-> pt, search_contents |-> sc,
                     case_sensitive |-> cs, max_depth |-> md,
                     extensions |-> ex, max_results |-> mr]] :
            pt \in {Lit(<<>>), Lit(<<"O">>), Lit(<<"a", "\n", "b">>), InvalidRegex},
            sc \in BOOLEAN, cs \in BOOLEAN, md \in {None, Some(1)},
            ex \in {None, Some(<<Ext_txt>>)},
            mr \in {None} \cup {Some(k) : k \in 0..MaxResults} }

DefaultSearchOptions ==
    [pattern |-> Lit(<<>>), search_contents |-> FALSE, case_sensitive |-> TRUE,
     max_depth |-> None, extensions |-> None, max_results |-> None]

\* ------------------------------------------------- comparison (pure)
Min(a, b) == IF a <= b THEN a ELSE b

\* What one read into the buffer can return with rem bytes left: 0 at the
\* end of the file only, otherwise between one byte and a full buffer.
ReadLens(rem) == IF rem = 0 THEN {0} ELSE 1..Min(ChunkMax, rem)

\* The BinaryDiff records of one pass of the for loop: buffer positions
\* 0..min_read-1, the buffers holding the bytes read at lpos and rpos.
RECURSIVE ChunkDiffs(_, _, _, _, _, _, _)
ChunkDiffs(L, R, lpos, rpos, offset, i, min_read) ==
    IF i >= min_read THEN <<>>
    ELSE (IF L[lpos + i + 1] # R[rpos + i + 1]
          THEN <<[kind |-> "Binary", offset |-> offset + i,
                  left |-> L[lpos + i + 1], right |-> R[rpos + i + 1]]>>
          ELSE <<>>)
         \o ChunkDiffs(L, R, lpos, rpos, offset, i + 1, min_read)

\* compare_binary from file positions lpos and rpos: every difference list
\* the loop can push, over the lengths the reads can return.
RECURSIVE compare_binary(_, _, _, _, _)
compare_binary(L, R, lpos, rpos, offset) ==
    IF lpos = Len(L) /\ rpos = Len(R) THEN {<<>>}
    ELSE UNION { UNION {
             LET min_read == Min(left_read, right_read)
             IN  { ChunkDiffs(L, R, lpos, rpos, offset, 0, min_read) \o rest :
                     rest \in compare_binary(L, R, lpos + left_read,
                                             rpos + right_read, offset + min_read) }
             : right_read \in ReadLens(Len(R) - rpos) }
           : left_read \in ReadLens(Len(L) - lpos) }

\* The lines read_line yields: each with its terminating newline, the last
\* one possibly without.
RECURSIVE lines_of(_)
lines_of(content) ==
    IF content = <<>> THEN <<>>
    ELSE LET nl == {i \in 1..Len(content) : content[i] = "\n"}
             k == IF nl = {} THEN Len(content)
                  ELSE CHOOSE i \in nl : \A j \in nl : i <= j
         IN  <<SubSeq(content, 1, k)>> \o lines_of(SubSeq(content, k + 1, Len(content)))

Whitespace == {" ", "\n", "\t", "\r"}

\* str::trim
RECURSIVE trim(_)
trim(str) ==
    IF str = <<>> THEN str
    ELSE IF Head(str) \in Whitespace THEN trim(Tail(str))
    ELSE IF str[Len(str)] \in Whitespace THEN trim(SubSeq(str, 1, Len(str) - 1))
    ELSE str

\* A normalisation that leaves the case of letters alone.
processed_case_kept(line, comparison_type) ==
    IF comparison_type = "TextIgnoreWhitespace" THEN trim(line) ELSE line

\* The normalisation of a line under the comparison type.
processed(line, comparison_type) ==
    CASE comparison_type = "TextIgnoreWhitespace" -> trim(line)
      [] comparison_type = "TextIgnoreCase" -> to_lowercase(line)
      [] OTHER -> line

\* A text comparison that records the normalised lines.
RECURSIVE compare_text_recording_processed(_, _, _, _)
compare_text_recording_processed(Llines, Rlines, comparison_type, line_number) ==
    IF line_number > Len(Llines) /\ line_number > Len(Rlines) THEN <<>>
    ELSE LET l == processed(IF line_number <= Len(Llines)
                            THEN Llines[line_number] ELSE <<>>, comparison_type)
             r == processed(IF line_number <= Len(Rlines)
                            THEN Rlines[line_number] ELSE <<>>, comparison_type)
         IN  (IF l # r
              THEN <<[kind |-> "Text", line |-> line_number,
                      left |-> l, right |-> r]>>
              ELSE <<>>)
             \o compare_text_recording_processed(Llines, Rlines,
                                                 comparison_type, line_number + 1)

\* compare_text from line line_number on: the TextDiff records pushed. A
\* side that is exhausted reads an empty line.
RECURSIVE compare_text(_, _, _, _)
compare_text(Llines, Rlines, comparison_type, line_number) ==
    IF line_number > Len(Llines) /\ line_number > Len(Rlines) THEN <<>>
    ELSE LET left_line == IF line_number <= Len(Llines)
                          THEN Llines[line_number] ELSE <<>>
             right_line == IF line_number <= Len(Rlines)
                           THEN Rlines[line_number] ELSE <<>>
         IN  (IF processed(left_line, comparison_type)
                    # processed(right_line, comparison_type)
              THEN <<[kind |-> "Text", line |-> line_number,
                      left |-> left_line, right |-> right_line]>>
              ELSE <<>>)
             \o compare_text(Llines, Rlines, comparison_type, line_number + 1)

\* A result whose identical flag looks at content differences only.
ComparisonResult_ignoring_size(differences) ==
    [identical |-> \A i \in 1..Len(differences) : differences[i].kind = "Size",
     differences |-> differences,
     total_differences |-> Len(differences)]

\* The ComparisonResult both comparisons build from their difference list.
ComparisonResult_of(differences) ==
    [identical |-> differences = <<>>,
     differences |-> differences,
     total_differences |-> Len(differences)]

\* The differences of the selected comparison alone, without the size check.
compare_files_diffs_content_only(L, R, comparison_type) ==
    IF comparison_type = "Binary" THEN compare_binary(L, R, 0, 0, 0)
    ELSE {compare_text(lines_of(L), lines_of(R), comparison_type, 1)}

\* The difference lists compare_files can build for two readable files of
\* contents L and R: the size difference first, then the selected comparison.
compare_files_diffs(L, R, comparison_type) ==
    LET size == IF Len(L) # Len(R)
                THEN <<[kind |-> "Size", left_size |-> Len(L),
                        right_size |-> Len(R)]>>
                ELSE <<>>
    IN  IF comparison_type = "Binary"
        THEN { size \o d : d \in compare_binary(L, R, 0, 0, 0) }
        ELSE { size \o compare_text(lines_of(L), lines_of(R), comparison_type, 1) }

\* A directory tree: for each relative path an Option entry; an entry is a
\* directory or a file with Option contents (None: the file cannot be read).
\* RelPaths is the order of the walk; its first path, the empty one, is the
\* root itself, which WalkDir yields first (and not at all when missing).
RelPaths == <<"", "f", "d">>
Dir == [kind |-> "dir", content |-> None]
FileOf(c) == [kind |-> "file", content |-> Some(c)]
Unreadable == [kind |-> "file", content |-> None]

\* The first loop of compare_directories from the i-th left entry on: the
\* set of outcomes, each the differences pushed and whether a compare_files
\* call failed.
RECURSIVE left_pass(_, _, _, _)
left_pass(Lt, Rt, comparison_type, i) ==
    IF i > Len(RelPaths) THEN {[err |-> FALSE, diffs |-> <<>>]}
    ELSE LET rel == RelPaths[i]
             rest == left_pass(Lt, Rt, comparison_type, i + 1)
             with(d) == {[err |-> r.err, diffs |-> d \o r.diffs] : r \in rest}
         IN  IF Lt[rel] = None THEN rest
             ELSE IF Rt[rel] = None
                  THEN with(<<[kind |-> "Type", left_type |-> "file",
                               right_type |-> "missing"]>>)
             ELSE IF Unwrap(Lt[rel]).kind = "file" /\ Unwrap(Rt[rel]).kind = "file"
                  THEN IF Unwrap(Lt[rel]).content = None
                          \/ Unwrap(Rt[rel]).content = None
                       THEN {[err |-> TRUE, diffs |-> <<>>]}
                       ELSE UNION { with(d) :
                                d \in compare_files_diffs(
                                         Unwrap(Unwrap(Lt[rel]).content),
                                         Unwrap(Unwrap(Rt[rel]).content),
                                         comparison_type) }
             ELSE rest

\* A second loop that records nothing.
right_pass_nothing(Lt, Rt, i) == <<>>

\* The second loop of compare_directories: entries of the right tree that
\* the left tree lacks.
RECURSIVE right_pass(_, _, _)
right_pass(Lt, Rt, i) ==
    IF i > Len(RelPaths) THEN <<>>
    ELSE (IF Rt[RelPaths[i]] # None /\ Lt[RelPaths[i]] = None
          THEN <<[kind |-> "Type", left_type |-> "missing",
                  right_type |-> "file"]>>
          ELSE <<>>)
         \o right_pass(Lt, Rt, i + 1)

\* File contents and trees tried.
F_empty == <<>>
F_a == <<"a">>
F_A == <<"A">>
F_ab == <<"a", "b">>
F_abc == <<"a", "b", "c">>
F_a_nl == <<"a", "\n">>
F_a_sp_nl == <<"a", " ", "\n">>
F_a_nl_b == <<"a", "\n", "b">>
F_A_nl_B == <<"A", "\n", "B">>
F_hello == <<"h", "e", "l", "l", "o">>
F_world == <<"w", "o", "r", "l", "d">>
FileContents ==
    {F_empty, F_a, F_A, F_ab, F_abc, F_a_nl, F_a_sp_nl, F_a_nl_b, F_A_nl_B,
     F_hello, F_world}
\* A path given to compare_files: Some contents, or None when fs::metadata
\* fails on it.
FileArgs == {None} \cup {Some(c) : c \in FileContents}
ComparisonTypes == {"Binary", "Text", "TextIgnoreWhitespace", "TextIgnoreCase"}
TreeEntries ==
    {None, Some(Dir), Some(Unreadable), Some(FileOf(F_a)), Some(FileOf(F_ab)),
     Some(FileOf(F_abc))}
Trees ==
    { t \in [{RelPaths[i] : i \in 1..Len(RelPaths)} -> TreeEntries] :
        /\ t[""] \in {None, Some(Dir)}
        /\ t[""] = None => (t["f"] = None /\ t["d"] = None) }

\* ------------------------------------------------- listing (pure)
\* A child whose walk entry is fine and whose metadata cannot be read: a
\* dangling symbolic link.
N_link == <<"l", "n", "k">>
DanglingLink ==
    [name |-> N_link, path |-> N_link, depth |-> 1, is_dir |-> FALSE,
     walk_ok |-> TRUE, meta_ok |-> FALSE, contents |-> None]

\* The directories given to list_files: one that cannot be read, where the
\* walk yields nothing but the error of its root, and readable ones with
\* their entries in the order of the walk.
ListDirs ==
    {[readable |-> FALSE, children |-> <<>>]}
    \cup
    { [readable |-> TRUE, children |-> w] :
        w \in { v \in UNION { [1..n -> EntryPool \cup {DanglingLink}] :
                                n \in 0..MaxEntries } :
                  /\ \A i, j \in 1..Len(v) : i # j => v[i] # v[j]
                  /\ \A i \in 1..Len(v) :
                        v[i].depth = 2 => \E j \in 1..(i - 1) : v[j].name = N_d } }

\* WalkDir with min_depth(1), max_depth(1), filtered by e.ok(): whether the
\* walk hands the entry to the loop of list_files.
listed(entry) == entry.walk_ok /\ entry.depth = 1

\* The loop body of list_files for one entry: fs::metadata(&path).await?
\* returns the error, otherwise the entry is pushed.
list_entry(entry, acc) ==
    IF entry.meta_ok
    THEN [err |-> FALSE, entries |-> Append(acc, entry.path)]
    ELSE [err |-> TRUE, entries |-> acc]

\* ------------------------------------------------- directory hash (pure)
HashAlgorithms == {"MD5", "SHA1", "SHA256", "SHA512", "BLAKE3", "RIPEMD160"}

\* The hex digest of a byte string under an algorithm, as an ideal hash:
\* two digests are equal exactly when algorithm and bytes are.
digest(algorithm, bytes) == [algorithm |-> algorithm, digest_of |-> bytes]

\* The entries a walk of calculate_directory_hash can yield. is_file is
\* Path::is_file, which follows symbolic links; bytes is what reading the
\* path gives, None when it cannot be opened or read; meta_len is the length
\* in DirEntry::metadata, which does not follow links: for a link it is the
\* length of the link itself.
H_dir ==
    [name |-> "d", kind |-> "dir", walk_ok |-> TRUE, is_file |-> FALSE,
     bytes |-> None, meta_len |-> 0]
H_a ==
    [name |-> "a", kind |-> "file", walk_ok |-> TRUE, is_file |-> TRUE,
     bytes |-> Some(<<"a">>), meta_len |-> 1]
H_bc ==
    [name |-> "bc", kind |-> "file", walk_ok |-> TRUE, is_file |-> TRUE,
     bytes |-> Some(<<"b", "c">>), meta_len |-> 2]
H_empty ==
    [name |-> "e", kind |-> "file", walk_ok |-> TRUE, is_file |-> TRUE,
     bytes |-> Some(<<>>), meta_len |-> 0]
H_unreadable ==
    [name |-> "u", kind |-> "file", walk_ok |-> TRUE, is_file |-> TRUE,
     bytes |-> None, meta_len |-> 2]
H_link ==
    [name |-> "l", kind |-> "symlink_to_file", walk_ok |-> TRUE,
     is_file |-> TRUE, bytes |-> Some(<<"x", "y", "z">>), meta_len |-> 1]
H_walk_error ==
    [name |-> "w", kind |-> "file", walk_ok |-> FALSE, is_file |-> TRUE,
     bytes |-> Some(<<"w">>), meta_len |-> 1]
HashPool == {H_dir, H_a, H_bc, H_empty, H_unreadable, H_link, H_walk_error}

\* Walks of calculate_directory_hash: the root directory, then entries in
\* traversal order, none twice.
HashWalks ==
    { <<H_dir>> \o w :
        w \in { v \in UNION { [1..n -> HashPool \ {H_dir}] : n \in 0..MaxEntries } :
                  \A i, j \in 1..Len(v) : i # j => v[i] # v[j] } }

\* The loop over the walk, from entry i on with the bytes fed to the hasher
\* so far: open and read_to_end of every entry that is a file, `?` on both.
RECURSIVE hash_walk(_, _, _)
hash_walk(walk, i, fed) ==
    IF i > Len(walk) THEN [err |-> FALSE, fed |-> fed]
    ELSE IF ~walk[i].walk_ok \/ ~walk[i].is_file THEN hash_walk(walk, i + 1, fed)
    ELSE IF walk[i].bytes = None THEN [err |-> TRUE, fed |-> fed]
    ELSE hash_walk(walk, i + 1, fed \o Unwrap(walk[i].bytes))

\* The second walk: the sum of metadata().len() over the entries that are
\* files.
RECURSIVE walk_size(_, _)
walk_size(walk, i) ==
    IF i > Len(walk) THEN 0
    ELSE (IF walk[i].walk_ok /\ walk[i].is_file THEN walk[i].meta_len ELSE 0)
         + walk_size(walk, i + 1)

\* The HashResult of calculate_directory_hash (without time_ms).
HashResult_of(walk, algorithm) ==
    [algorithm |-> algorithm,
     hash |-> digest(algorithm, hash_walk(walk, 1, <<>>).fed),
     size |-> walk_size(walk, 1)]

\* ------------------------------------------------- states at rest
\* The value every subsystem's variables keep in the specifications of the
\* other subsystems.
HistIdle ==
    /\ history = new(0)
    /\ added = <<>>
    /\ savedFile = None

FilterIdle ==
    /\ fFilter = MonitoringFilter_new
    /\ fPath = <<>>
    /\ fResult = None

MonIdle ==
    /\ settings = [filter |-> MonitoringFilter_new, max_history |-> 0,
                   debounce_ms |-> 0]
    /\ fileMeta = [p \in MonPaths |-> None]
    /\ callerPc = "ready"
    /\ api = "none"
    /\ startResult = "none"
    /\ watcher = "none"
    /\ event_sender = None
    /\ eventQueue = <<>>
    /\ rawQueue = <<>>
    /\ taskPc = "none"
    /\ last_event_time = [p \in MonPaths |-> None]
    /\ clock = 0
    /\ outcome = "none"
    /\ callbackPanicked = FALSE
    /\ notifs = 0
    /\ delivered = <<>>

SearchIdle ==
    /\ tree = <<>>
    /\ sOp = [op |-> "none", arg |-> <<>>]
    /\ sOptions = DefaultSearchOptions
    /\ sPc = "idle"
    /\ sIdx = 1
    /\ results = <<>>

CmpIdle ==
    /\ cCall = [op |-> "none"]
    /\ cPc = "idle"
    /\ cResult = ComparisonResult_of(<<>>)

ListIdle ==
    /\ lDir = [readable |-> TRUE, children |-> <<>>]
    /\ lPc = "idle"
    /\ lIdx = 1
    /\ entries = <<>>

HashIdle ==
    /\ hCall = [walk |-> <<>>, algorithm |-> "SHA256"]
    /\ hPc = "idle"
    /\ hResult = HashResult_of(<<>>, "SHA256")

\* ------------------------------------------------- MonitoringHistory (spec)
HistInit ==
    /\ \E n \in 0..MaxCap : history = new(n)
    /\ added = <<>>
    /\ savedFile = None

HistAddEvent ==
    /\ Len(added) < MaxAdds
    /\ \E e \in HistEventPool :
          /\ history' = add_event(history, e)
          /\ added' = Append(added, e)
    /\ UNCHANGED <<savedFile, notHist>>

\* save_to_file writes the event list only.
HistSave ==
    /\ savedFile' = Some(history.events)
    /\ UNCHANGED <<history, added, notHist>>

HistLoad ==
    /\ IsSome(savedFile)
    /\ \E n \in 0..MaxCap :
          /\ history' = load_from_file(Unwrap(savedFile), n)
          /\ added' = Unwrap(savedFile)
    /\ UNCHANGED <<savedFile, notHist>>

HistNext == HistAddEvent \/ HistSave \/ HistLoad

InitHistory ==
    HistInit /\ FilterIdle /\ MonIdle /\ SearchIdle /\ CmpIdle /\ ListIdle
    /\ HashIdle

SpecHistory == InitHistory /\ [][HistNext]_vars

\* The last n elements of s (all of s when it is shorter).
LastN(s, n) == IF Len(s) <= n THEN s ELSE SubSeq(s, Len(s) - n + 1, Len(s))

\* C1: the number of stored events never exceeds the capacity max_events,
\* for every capacity N >= 0 and every sequence of add_event calls.
C1_HistoryBounded == Len(history.events) <= history.max_events

\* C2: after M > N add_event calls on a history of capacity N the stored
\* sequence is exactly the last N added events in insertion order.
C2_LastNKept ==
    Len(added) > history.max_events =>
        history.events = LastN(added, history.max_events)

\* C2 for a positive capacity: with max_events >= 1 the stored sequence is
\* the last max_events added events once more than that many were added.
C2_LastNKept_PositiveCap ==
    (history.max_events >= 1 /\ Len(added) > history.max_events) =>
        history.events = LastN(added, history.max_events)

\* C25: loading a saved history with load_from_file(path, max_events) gives
\* a history of capacity max_events whose events are the last
\* min(|h|, max_events) events of the saved history h, in order; the saved
\* document is the event list alone.
C25_SaveLoadRoundTrip ==
    /\ [][HistSave => savedFile' = Some(history.events)]_vars
    /\ [][HistLoad => history'.events
                        = LastN(Unwrap(savedFile), history'.max_events)]_vars

\* C25 for a positive capacity.
C25_SaveLoadRoundTrip_PositiveCap ==
    [][(HistLoad /\ history'.max_events >= 1)
        => history'.events = LastN(Unwrap(savedFile), history'.max_events)]_vars

\* ------------------------------------------------- MonitoringFilter (spec)

FilterPaths == {P_x_txt, P_x_log, P_x_TXT, P_noext, P_dotfile, P_dir_file}
FilterPatternLists ==
    {<<>>, <<G_star_txt>>, <<G_x_star>>, <<G_unclosed>>, <<G_unclosed, G_q_dot_star>>}
FilterExtensionSets == SUBSET {Ext_txt, Ext_log}

FilterInit ==
    /\ \E inc \in FilterPatternLists, exc \in FilterPatternLists,
          exts \in FilterExtensionSets :
          fFilter = [MonitoringFilter_new EXCEPT !.include_patterns = inc,
                                                 !.exclude_patterns = exc,
                                                 !.extensions = exts]
    /\ fPath \in FilterPaths
    /\ fResult = None

FilterMatches ==
    /\ fResult = None
    /\ fResult' = Some(matches(fFilter, fPath))
    /\ UNCHANGED <<fFilter, fPath, notFilter>>

FilterNext == FilterMatches

InitFilter ==
    HistIdle /\ FilterInit /\ MonIdle /\ SearchIdle /\ CmpIdle /\ ListIdle
    /\ HashIdle

SpecFilter == InitFilter /\ [][FilterNext]_vars

PatternsPass(f, path) ==
    /\ (f.include_patterns # <<>> => AnyPattern(f.include_patterns, path))
    /\ ~AnyPattern(f.exclude_patterns, path)

MonInit ==
    /\ settings = [filter |-> MonitoringFilter_new, max_history |-> 0,
                   debounce_ms |-> 0]
    /\ fileMeta = [p \in MonPaths |-> None]
    /\ callerPc = "ready"
    /\ api = "none"
    /\ startResult = "none"
    /\ watcher = "none"
    /\ event_sender = None
    /\ eventQueue = <<>>
    /\ rawQueue = <<>>
    /\ taskPc = "none"
    /\ last_event_time = [p \in MonPaths |-> None]
    /\ clock = 0
    /\ outcome = "none"
    /\ callbackPanicked = FALSE
    /\ notifs = 0
    /\ delivered = <<>>

\* The watcher owns its callback, and the callback owns a Sender.
WatcherAlive == watcher \in {"created", "watching"}

\* Live senders of the channel next_event receives from: the one stored in
\* the facade and the one the watcher's callback holds.
EventSenders ==
    (IF IsSome(event_sender) THEN 1 ELSE 0)
    + (IF api = "watch_directory" /\ WatcherAlive THEN 1 ELSE 0)

\* The Receiver of the raw channel lives in start_monitoring_with_settings
\* until the task is spawned, and then in the task.
RawRxAlive ==
    \/ callerPc \in {"sm_new_watcher", "sm_watch", "sm_spawn"}
    \/ taskPc = "running"

\* start_monitoring_with_settings(settings): the channel, the history, the
\* debounce map. The files the session will look at are fixed here too.
SmCall ==
    /\ callerPc = "ready" /\ api = "none"
    /\ api' = "settings"
    /\ callerPc' = "sm_new_watcher"
    /\ \E st \in MonSettings :
          /\ settings' = st
          /\ history' = new(st.max_history)
    /\ fileMeta' \in MetaChoices
    /\ last_event_time' = [p \in MonPaths |-> None]
    /\ rawQueue' = <<>>
    /\ UNCHANGED <<startResult, watcher, event_sender,
                   eventQueue, taskPc, clock, outcome, callbackPanicked,
                   notifs, delivered, notMon>>

\* notify::recommended_watcher(..)? succeeds.
SmWatcherNewOk ==
    /\ callerPc = "sm_new_watcher"
    /\ watcher' = "created"
    /\ callerPc' = "sm_watch"
    /\ UNCHANGED <<settings, fileMeta, api, startResult, event_sender,
                   eventQueue, rawQueue, taskPc, last_event_time, clock,
                   outcome, callbackPanicked, notifs, delivered,
                   history, notMon>>

\* notify::recommended_watcher(..)? fails: the function returns the error.
SmWatcherNewErr ==
    /\ callerPc = "sm_new_watcher"
    /\ startResult' = "err"
    /\ callerPc' = "ready"
    /\ UNCHANGED <<settings, fileMeta, api, watcher, event_sender,
                   eventQueue, rawQueue, taskPc, last_event_time, clock,
                   outcome, callbackPanicked, notifs, delivered,
                   history, notMon>>

\* watcher.watch(..)? succeeds: the OS watch is installed.
SmWatchOk ==
    /\ callerPc = "sm_watch"
    /\ watcher' = "watching"
    /\ callerPc' = "sm_spawn"
    /\ UNCHANGED <<settings, fileMeta, api, startResult, event_sender,
                   eventQueue, rawQueue, taskPc, last_event_time, clock,
                   outcome, callbackPanicked, notifs, delivered,
                   history, notMon>>

\* watcher.watch(..)? fails: the watcher is dropped with the frame.
SmWatchErr ==
    /\ callerPc = "sm_watch"
    /\ watcher' = "dropped"
    /\ startResult' = "err"
    /\ callerPc' = "ready"
    /\ UNCHANGED <<settings, fileMeta, api, event_sender,
                   eventQueue, rawQueue, taskPc, last_event_time, clock,
                   outcome, callbackPanicked, notifs, delivered,
                   history, notMon>>

\* tokio::spawn of the processing task.
SmSpawn ==
    /\ callerPc = "sm_spawn"
    /\ taskPc' = "running"
    /\ callerPc' = "sm_return"
    /\ UNCHANGED <<settings, fileMeta, api, startResult, watcher, event_sender,
                   eventQueue, rawQueue, last_event_time, clock,
                   outcome, callbackPanicked, notifs, delivered,
                   history, notMon>>

\* Ok(()) is returned; `watcher` is a local of the function and is dropped.
SmReturn ==
    /\ callerPc = "sm_return"
    /\ watcher' = "dropped"
    /\ startResult' = "ok"
    /\ callerPc' = "ready"
    /\ UNCHANGED <<settings, fileMeta, api, event_sender,
                   eventQueue, rawQueue, taskPc, last_event_time, clock,
                   outcome, callbackPanicked, notifs, delivered,
                   history, notMon>>

\* watch_directory: the channel is made and its Sender stored in the facade
\* before anything that can fail.
WdCall ==
    /\ callerPc = "ready" /\ api = "none"
    /\ api' = "watch_directory"
    /\ event_sender' = Some("tx")
    /\ eventQueue' = <<>>
    /\ callerPc' = "wd_new_watcher"
    /\ UNCHANGED <<settings, fileMeta, startResult, watcher, rawQueue, taskPc,
                   last_event_time, clock, outcome, callbackPanicked, notifs,
                   delivered, history, notMon>>

WdWatcherNewOk ==
    /\ callerPc = "wd_new_watcher"
    /\ watcher' = "created"
    /\ callerPc' = "wd_watch"
    /\ UNCHANGED <<settings, fileMeta, api, startResult, event_sender,
                   eventQueue, rawQueue, taskPc, last_event_time, clock,
                   outcome, callbackPanicked, notifs, delivered,
                   history, notMon>>

WdWatcherNewErr ==
    /\ callerPc = "wd_new_watcher"
    /\ startResult' = "err"
    /\ callerPc' = "ready"
    /\ UNCHANGED <<settings, fileMeta, api, watcher, event_sender,
                   eventQueue, rawQueue, taskPc, last_event_time, clock,
                   outcome, callbackPanicked, notifs, delivered,
                   history, notMon>>

WdWatchOk ==
    /\ callerPc = "wd_watch"
    /\ watcher' = "watching"
    /\ callerPc' = "wd_return"
    /\ UNCHANGED <<settings, fileMeta, api, startResult, event_sender,
                   eventQueue, rawQueue, taskPc, last_event_time, clock,
                   outcome, callbackPanicked, notifs, delivered,
                   history, notMon>>

WdWatchErr ==
    /\ callerPc = "wd_watch"
    /\ watcher' = "dropped"
    /\ startResult' = "err"
    /\ callerPc' = "ready"
    /\ UNCHANGED <<settings, fileMeta, api, event_sender,
                   eventQueue, rawQueue, taskPc, last_event_time, clock,
                   outcome, callbackPanicked, notifs, delivered,
                   history, notMon>>

\* Ok(()) is returned; `watcher` is a local of the function and is dropped.
WdReturn ==
    /\ callerPc = "wd_return"
    /\ watcher' = "dropped"
    /\ startResult' = "ok"
    /\ callerPc' = "ready"
    /\ UNCHANGED <<settings, fileMeta, api, event_sender,
                   eventQueue, rawQueue, taskPc, last_event_time, clock,
                   outcome, callbackPanicked, notifs, delivered,
                   history, notMon>>

\* The OS delivers a notification to the callback of the settings-based
\* watch, which sends it to the task: tx.send(event).unwrap().
SmNotify ==
    /\ api = "settings" /\ watcher = "watching" /\ ~callbackPanicked
    /\ notifs < MaxNotifs
    /\ RawRxAlive
    /\ \E ev \in RawEvents : rawQueue' = Append(rawQueue, ev)
    /\ notifs' = notifs + 1
    /\ UNCHANGED <<settings, fileMeta, callerPc, api, startResult, watcher,
                   event_sender, eventQueue, taskPc, last_event_time, clock,
                   outcome, callbackPanicked, delivered,
                   history, notMon>>

\* The same when the task's Receiver is gone: send fails and unwrap panics.
SmNotifyPanic ==
    /\ api = "settings" /\ watcher = "watching" /\ ~callbackPanicked
    /\ notifs < MaxNotifs
    /\ ~RawRxAlive
    /\ callbackPanicked' = TRUE
    /\ notifs' = notifs + 1
    /\ UNCHANGED <<settings, fileMeta, callerPc, api, startResult, watcher,
                   event_sender, eventQueue, rawQueue, taskPc, last_event_time,
                   clock, outcome, delivered, history, notMon>>

\* The OS delivers a notification to the callback of watch_directory.
WdNotify ==
    /\ api = "watch_directory" /\ watcher = "watching"
    /\ notifs < MaxNotifs
    /\ \E ev \in RawEvents : eventQueue' = eventQueue \o wd_events(ev, clock)
    /\ notifs' = notifs + 1
    /\ UNCHANGED <<settings, fileMeta, callerPc, api, startResult, watcher,
                   event_sender, rawQueue, taskPc, last_event_time, clock,
                   outcome, callbackPanicked, delivered,
                   history, notMon>>

\* The task receives a notification and runs one iteration of its loop.
TaskHandle ==
    /\ taskPc = "running" /\ rawQueue # <<>>
    /\ LET r == handle(Head(rawQueue), clock, settings, fileMeta,
                       last_event_time, history)
           panics == r.outcome \in {"panic_no_path", "panic_clock"}
       IN  /\ outcome' = r.outcome
           /\ last_event_time' = r.last_event_time
           /\ history' = r.history
           /\ taskPc' = IF panics THEN "panicked" ELSE "running"
           /\ rawQueue' = IF panics THEN <<>> ELSE Tail(rawQueue)
    /\ UNCHANGED <<settings, fileMeta, callerPc, api, startResult, watcher,
                   event_sender, eventQueue, clock, callbackPanicked, notifs,
                   delivered, notMon>>

\* rx.recv() fails once the channel is empty and its Sender dropped.
TaskEnd ==
    /\ taskPc = "running" /\ rawQueue = <<>> /\ ~WatcherAlive
    /\ taskPc' = "ended"
    /\ UNCHANGED <<settings, fileMeta, callerPc, api, startResult, watcher,
                   event_sender, eventQueue, rawQueue, last_event_time, clock,
                   outcome, callbackPanicked, notifs, delivered,
                   history, notMon>>

\* The clock is read by the watcher's callback and by the task.
ClockObserved == WatcherAlive \/ (taskPc = "running" /\ rawQueue # <<>>)

\* Time passes.
Tick ==
    /\ ClockObserved
    /\ clock < MaxClock
    /\ clock' = clock + 1
    /\ UNCHANGED <<settings, fileMeta, callerPc, api, startResult, watcher,
                   event_sender, eventQueue, rawQueue, taskPc, last_event_time,
                   outcome, callbackPanicked, notifs, delivered,
                   history, notMon>>

\* The system clock is set back: SystemTime is not monotonic.
ClockBack ==
    /\ ClockObserved
    /\ clock > 0
    /\ clock' = clock - 1
    /\ UNCHANGED <<settings, fileMeta, callerPc, api, startResult, watcher,
                   event_sender, eventQueue, rawQueue, taskPc, last_event_time,
                   outcome, callbackPanicked, notifs, delivered,
                   history, notMon>>

\* The caller enters next_event.
NextEventCall ==
    /\ callerPc = "ready"
    /\ callerPc' = "in_next_event"
    /\ UNCHANGED <<settings, fileMeta, api, startResult, watcher,
                   event_sender, eventQueue, rawQueue, taskPc, last_event_time,
                   clock, outcome, callbackPanicked, notifs, delivered, history, notMon>>

\* next_event returns: None without a stored endpoint, otherwise what the
\* blocking recv() yields, made an Option by ok().
NextEventReturn ==
    /\ callerPc = "in_next_event"
    /\ ~(IsSome(event_sender) /\ recv_blocks(eventQueue, EventSenders))
    /\ LET got == IF IsSome(event_sender) /\ eventQueue # <<>>
                  THEN Some(Head(eventQueue)) ELSE None
       IN  /\ delivered' = delivered \o got
           /\ eventQueue' = IF IsSome(got) THEN Tail(eventQueue) ELSE eventQueue
    /\ callerPc' = "ready"
    /\ UNCHANGED <<settings, fileMeta, api, startResult, watcher,
                   event_sender, rawQueue, taskPc, last_event_time,
                   clock, outcome, callbackPanicked, notifs, history, notMon>>

MonNext ==
    \/ SmCall \/ SmWatcherNewOk \/ SmWatcherNewErr \/ SmWatchOk \/ SmWatchErr
    \/ SmSpawn \/ SmReturn
    \/ WdCall \/ WdWatcherNewOk \/ WdWatcherNewErr \/ WdWatchOk \/ WdWatchErr
    \/ WdReturn
    \/ SmNotify \/ SmNotifyPanic \/ WdNotify
    \/ TaskHandle \/ TaskEnd
    \/ Tick \/ ClockBack
    \/ NextEventCall \/ NextEventReturn

InitMonitor ==
    MonInit /\ FilterIdle /\ HistIdle /\ SearchIdle /\ CmpIdle /\ ListIdle
    /\ HashIdle

SpecMonitor == InitMonitor /\ [][MonNext]_vars

\* The notification passes every check that precedes the debounce test: it
\* names a path, the path matches the filter, its kind maps to an event type
\* the filter accepts, and the size bounds hold.
PassesFilter(ev) ==
    /\ ev.paths # <<>>
    /\ matches(settings.filter, ev.paths[1])
    /\ IsSome(event_type_of(ev.kind))
    /\ Unwrap(event_type_of(ev.kind)) \in settings.filter.event_types
    /\ size_ok(settings.filter, fileMeta[ev.paths[1]])

\* C3: in a settings-based watch, a notification that passes the filter for
\* a path that already has an accepted event is dropped when it is handled
\* less than debounce_ms after that event was accepted (history and debounce
\* map unchanged), and accepted when it is handled debounce_ms or more
\* later (appended to the history, its time recorded for the path).
C3_Debounce ==
    [][ (/\ TaskHandle
         /\ PassesFilter(Head(rawQueue))
         /\ IsSome(last_event_time[Head(rawQueue).paths[1]]))
        => LET ev == Head(rawQueue)
               p == ev.paths[1]
               gap == clock - Unwrap(last_event_time[p])
           IN  /\ gap < settings.debounce_ms
                    => /\ outcome' # "accepted"
                       /\ history' = history
                       /\ last_event_time' = last_event_time
               /\ gap >= settings.debounce_ms
                    => /\ outcome' = "accepted"
                       /\ Len(history'.events) >= 1
                       /\ history'.events[Len(history'.events)] =
                             [event_type |-> Unwrap(event_type_of(ev.kind)),
                              path |-> p, timestamp |-> clock]
                       /\ last_event_time' =
                             [last_event_time EXCEPT ![p] = Some(clock)] ]_vars

\* C3 witness: with a positive debounce interval, a second notification for
\* a path was dropped by the debounce test after the first was accepted.
C3_Witness ==
    /\ settings.debounce_ms = MaxDebounce
    /\ outcome = "debounced"
    /\ Len(history.events) = 1
    /\ last_event_time[history.events[1].path] = Some(history.events[1].timestamp)
    /\ clock > history.events[1].timestamp

\* C3, the other case reached: two events for one path were both accepted,
\* debounce_ms or more apart.
C3_BothAccepted ==
    /\ settings.debounce_ms = MaxDebounce
    /\ Len(history.events) = 2
    /\ history.events[1].path = history.events[2].path
    /\ history.events[2].timestamp - history.events[1].timestamp >= MaxDebounce

\* C4: once a watch start has returned success the monitor is Watching (the
\* OS watch is installed and delivers notifications); the caller holds no
\* handle it could release, so this lasts for the rest of the run.
C4_StaysWatching == startResult = "ok" => watcher = "watching"

\* C5: every event the task accepted (appended to the history) has been
\* handed to the queue next_event reads, or was already returned by it.
C5_AcceptedReachQueue ==
    \A i \in 1..Len(history.events) :
        \/ \E j \in 1..Len(eventQueue) : eventQueue[j] = history.events[i]
        \/ \E j \in 1..Len(delivered) : delivered[j] = history.events[i]

\* C6: next_event never blocks: whenever the caller is inside next_event the
\* call can return at once.
C6_NextEventNeverBlocks ==
    callerPc = "in_next_event" => ENABLED NextEventReturn

\* C14: every event in the history passed every filter check: its path
\* matches some include pattern when there are any and no exclude pattern,
\* its extension is a member of the extension set when the set is not
\* empty, and its kind is a member of the event-kind set.
C14_HistoryPassedFilter ==
    \A i \in 1..Len(history.events) :
        LET ev == history.events[i]
            f == settings.filter
        IN  /\ PatternsPass(f, ev.path)
            /\ f.extensions # {}
                 => /\ IsSome(extension(ev.path))
                    /\ Unwrap(extension(ev.path)) \in f.extensions
            /\ ev.event_type \in f.event_types

\* C14 for paths that have an extension: the checks hold for every event in
\* the history whose path has one.
C14_HistoryPassedFilter_WithExtension ==
    \A i \in 1..Len(history.events) :
        LET ev == history.events[i]
            f == settings.filter
        IN  /\ PatternsPass(f, ev.path)
            /\ (f.extensions # {} /\ IsSome(extension(ev.path)))
                 => Unwrap(extension(ev.path)) \in f.extensions
            /\ ev.event_type \in f.event_types
            /\ size_ok(f, fileMeta[ev.path])

\* C15: a notification of a raw kind without a mapping of its own is
\* handled as a Metadata event: when it passes the filter and no earlier
\* event of its path is recorded, it is accepted and appended to the
\* history with kind Metadata.
C15_UnmappedKindIsMetadata ==
    [][ (/\ TaskHandle
         /\ Head(rawQueue).paths # <<>>
         /\ Head(rawQueue).kind = "Other"
         /\ matches(settings.filter, Head(rawQueue).paths[1])
         /\ "Metadata" \in settings.filter.event_types
         /\ size_ok(settings.filter, fileMeta[Head(rawQueue).paths[1]])
         /\ last_event_time[Head(rawQueue).paths[1]] = None)
        => /\ outcome' = "accepted"
           /\ Len(history'.events) >= 1
           /\ history'.events[Len(history'.events)] =
                 [event_type |-> "Metadata", path |-> Head(rawQueue).paths[1],
                  timestamp |-> clock] ]_vars

\* C16: after a start operation returned an error no monitoring session
\* exists: no watch is installed, the facade holds no event channel, no
\* processing task runs and no event was produced.
C16_FailedStartLeavesIdle ==
    startResult = "err"
    => /\ ~WatcherAlive
       /\ event_sender = None
       /\ taskPc = "none"
       /\ history.events = <<>>
       /\ eventQueue = <<>>
       /\ delivered = <<>>

\* C26: the debounce map changes only when a notification is accepted, and
\* then only at the notification's path; a notification that passes the
\* filter is accepted exactly when no event of its own path was accepted
\* less than debounce_ms before it, whatever was accepted for other paths
\* and whatever the clock reads.
C26_DebouncePerPath ==
    [][ (TaskHandle /\ Head(rawQueue).paths # <<>>)
        => LET ev == Head(rawQueue)
               p == ev.paths[1]
               recent == /\ IsSome(last_event_time[p])
                         /\ Unwrap(last_event_time[p]) <= clock
                         /\ clock - Unwrap(last_event_time[p]) < settings.debounce_ms
           IN  /\ outcome' # "accepted" => last_event_time' = last_event_time
               /\ outcome' = "accepted"
                    => /\ last_event_time'[p] = Some(clock)
                       /\ \A q \in MonPaths \ {p} :
                             last_event_time'[q] = last_event_time[q]
               /\ PassesFilter(ev) => (outcome' = "accepted" <=> ~recent) ]_vars

\* C26 while the clock does not read earlier than the time recorded for the
\* notification's path.
C26_DebouncePerPath_ClockForward ==
    [][ (/\ TaskHandle /\ Head(rawQueue).paths # <<>>
         /\ ~(/\ IsSome(last_event_time[Head(rawQueue).paths[1]])
              /\ clock < Unwrap(last_event_time[Head(rawQueue).paths[1]])))
        => LET ev == Head(rawQueue)
               p == ev.paths[1]
               recent == /\ IsSome(last_event_time[p])
                         /\ clock - Unwrap(last_event_time[p]) < settings.debounce_ms
           IN  /\ outcome' # "accepted" => last_event_time' = last_event_time
               /\ outcome' = "accepted"
                    => /\ last_event_time'[p] = Some(clock)
                       /\ \A q \in MonPaths \ {p} :
                             last_event_time'[q] = last_event_time[q]
               /\ PassesFilter(ev) => (outcome' = "accepted" <=> ~recent) ]_vars

\* C28: the processing task never ends in a panic and the callback's send
\* to the task never fails, whatever notification and clock reading come.
C28_TaskNeverPanics == taskPc # "panicked" /\ ~callbackPanicked

\* C29: a rename notification (Modify of the Name sub-kind) that passes the
\* filter of a watch accepting Rename is accepted and recorded with kind
\* Rename.
C29_RenameIsRename ==
    [][ (/\ TaskHandle
         /\ Head(rawQueue).kind = "Modify_Name"
         /\ matches(settings.filter, Head(rawQueue).paths[1])
         /\ "Rename" \in settings.filter.event_types
         /\ size_ok(settings.filter, fileMeta[Head(rawQueue).paths[1]])
         /\ last_event_time[Head(rawQueue).paths[1]] = None)
        => /\ outcome' = "accepted"
           /\ Len(history'.events) >= 1
           /\ history'.events[Len(history'.events)].event_type = "Rename" ]_vars

\* C30: with an empty event-kind set, as in the settings of the CLI monitor
\* command, every notification is dropped: nothing is accepted, the history
\* stays empty and no debounce time is recorded.
C30_EmptyKindsDropAll ==
    (api = "settings" /\ settings.filter.event_types = {})
    => /\ outcome \notin {"accepted", "debounced"}
       /\ history.events = <<>>
       /\ \A p \in MonPaths : last_event_time[p] = None

\* C30 witness: under the CLI settings a notification that passes every
\* other check was dropped by the event-kind test.
C30_Witness ==
    /\ api = "settings"
    /\ settings = [filter |-> MonitoringFilter_new,
                   max_history |-> CliMaxHistory, debounce_ms |-> CliDebounceMs]
    /\ outcome = "type_rejected"
    /\ notifs = MaxNotifs /\ rawQueue = <<>>
    /\ history.events = <<>>

\* ------------------------------------------------- search (spec)
SearchInit ==
    /\ tree \in Walks
    /\ sOp = [op |-> "none", arg |-> <<>>]
    /\ sOptions = DefaultSearchOptions
    /\ sPc = "idle"
    /\ sIdx = 1
    /\ results = <<>>

\* A search operation is called: the wrappers build their options, and
\* search_files compiles the pattern, failing on an invalid one.
SearchCall ==
    /\ sPc = "idle"
    /\ \E c \in SearchCalls :
          LET options ==
                 CASE c.op = "find_files_by_extension" ->
                          find_files_by_extension_options(c.arg)
                   [] c.op = "find_files" -> find_files_options(c.arg)
                   [] OTHER -> c.arg
          IN  /\ sOp' = c
              /\ sOptions' = options
              /\ sPc' = IF regex_ok(options.pattern) THEN "walking" ELSE "err"
    /\ sIdx' = 1
    /\ results' = <<>>
    /\ UNCHANGED <<tree, notSearch>>

\* The walk passes over an entry it does not hand to the loop.
SearchSkip ==
    /\ sPc = "walking" /\ sIdx <= Len(tree)
    /\ ~yielded(sOptions, tree[sIdx])
    /\ sIdx' = sIdx + 1
    /\ UNCHANGED <<tree, sOp, sOptions, sPc, results, notSearch>>

\* One iteration of the loop: the cap test, then the entry.
SearchStep ==
    /\ sPc = "walking" /\ sIdx <= Len(tree)
    /\ yielded(sOptions, tree[sIdx])
    /\ IF cap_reached(sOptions, results)
       THEN /\ sPc' = "done"
            /\ UNCHANGED <<sIdx, results>>
       ELSE /\ results' = search_entry(sOptions, tree[sIdx], results)
            /\ sIdx' = sIdx + 1
            /\ UNCHANGED sPc
    /\ UNCHANGED <<tree, sOp, sOptions, notSearch>>

\* The walk is exhausted: Ok(results).
SearchEnd ==
    /\ sPc = "walking" /\ sIdx > Len(tree)
    /\ sPc' = "done"
    /\ UNCHANGED <<tree, sOp, sOptions, sIdx, results, notSearch>>

SearchNext == SearchCall \/ SearchSkip \/ SearchStep \/ SearchEnd

InitSearch ==
    SearchInit /\ HistIdle /\ FilterIdle /\ MonIdle /\ CmpIdle /\ ListIdle
    /\ HashIdle

SpecSearch == InitSearch /\ [][SearchNext]_vars

\* The entries of the walk that can be returned at all: yielded by the
\* walk, with readable metadata.
Returnable(e) == e.walk_ok /\ e.meta_ok

\* C8: find_files_by_extension(e) returns every entry below the root whose
\* extension equals e ignoring letter case.
C8_ExtensionIgnoresCase ==
    (sPc = "done" /\ sOp.op = "find_files_by_extension") =>
        \A i \in 1..Len(tree) :
            (/\ Returnable(tree[i])
             /\ IsSome(extension(tree[i].name))
             /\ to_lowercase(Unwrap(extension(tree[i].name))) = to_lowercase(sOp.arg))
            => \E j \in 1..Len(results) : results[j] = tree[i].path

\* C9: with max_results = Some(K) the result vector never holds more than K
\* entries, and once it holds K the next iteration of the loop ends the walk
\* without looking at the entry.
C9_ResultCap ==
    /\ [](IsSome(sOptions.max_results) =>
              Len(results) <= Unwrap(sOptions.max_results))
    /\ [][ (/\ SearchStep
            /\ IsSome(sOptions.max_results)
            /\ Len(results) >= Unwrap(sOptions.max_results))
           => (sPc' = "done" /\ results' = results) ]_vars

\* C9 witness: a search with a cap of K >= 1 has ended with K results while
\* entries of the walk were left.
C9_Witness ==
    /\ sPc = "done"
    /\ IsSome(sOptions.max_results)
    /\ Unwrap(sOptions.max_results) >= 1
    /\ Len(results) = Unwrap(sOptions.max_results)
    /\ sIdx <= Len(tree)

\* A line without its line terminator.
StripNewline(line) ==
    IF line # <<>> /\ line[Len(line)] = "\n"
    THEN SubSeq(line, 1, Len(line) - 1) ELSE line

\* Some line of the text matches the pattern.
AnyLineMatches(pattern, case_sensitive, text) ==
    \E n \in 1..Len(lines_of(text)) :
        is_match(pattern, case_sensitive, StripNewline(lines_of(text)[n]))

\* C24: in a finished search_files with search_contents and no cap, an
\* entry handed to the loop that passes the extension check and can be
\* returned is in the result exactly once if its name matches, and
\* otherwise exactly when it is a readable text file one of whose lines
\* matches the pattern.
C24_ContentSearchPerLine ==
    (/\ sPc = "done" /\ sOp.op = "search_files"
     /\ sOptions.search_contents /\ sOptions.max_results = None)
    => \A i \in 1..Len(tree) :
          LET e == tree[i]
              hits == {j \in 1..Len(results) : results[j] = e.path}
          IN  (/\ yielded(sOptions, e) /\ Returnable(e)
               /\ extension_allowed(sOptions.extensions, e.name))
              => IF is_match(sOptions.pattern, sOptions.case_sensitive, e.name)
                 THEN Cardinality(hits) = 1
                 ELSE (hits # {})
                        <=> (/\ ~e.is_dir /\ IsSome(e.contents)
                             /\ AnyLineMatches(sOptions.pattern,
                                               sOptions.case_sensitive,
                                               Unwrap(e.contents)))

\* C24 for patterns that cannot match across a line break.
C24_ContentSearchPerLine_OneLinePatterns ==
    (/\ sPc = "done" /\ sOp.op = "search_files"
     /\ sOptions.search_contents /\ sOptions.max_results = None
     /\ \A k \in 1..Len(sOptions.pattern.text) : sOptions.pattern.text[k] # "\n")
    => \A i \in 1..Len(tree) :
          LET e == tree[i]
              hits == {j \in 1..Len(results) : results[j] = e.path}
          IN  (/\ yielded(sOptions, e) /\ Returnable(e)
               /\ extension_allowed(sOptions.extensions, e.name))
              => IF is_match(sOptions.pattern, sOptions.case_sensitive, e.name)
                 THEN Cardinality(hits) = 1
                 ELSE (hits # {})
                        <=> (/\ ~e.is_dir /\ IsSome(e.contents)
                             /\ AnyLineMatches(sOptions.pattern,
                                               sOptions.case_sensitive,
                                               Unwrap(e.contents)))

\* ------------------------------------------------- comparison (spec)
CmpInit ==
    /\ cCall \in
          { [op |-> "compare_files", left |-> l, right |-> r, mode |-> m] :
              l \in FileArgs, r \in FileArgs, m \in ComparisonTypes }
          \cup
          { [op |-> "compare_directories", left |-> l, right |-> r, mode |-> m] :
              l \in Trees, r \in Trees, m \in ComparisonTypes }
    /\ cPc = "idle"
    /\ cResult = ComparisonResult_of(<<>>)

\* compare_files on two readable files.
CompareFilesOk ==
    /\ cPc = "idle" /\ cCall.op = "compare_files"
    /\ IsSome(cCall.left) /\ IsSome(cCall.right)
    /\ \E d \in compare_files_diffs(Unwrap(cCall.left), Unwrap(cCall.right),
                                    cCall.mode) :
          cResult' = ComparisonResult_of(d)
    /\ cPc' = "ok"
    /\ UNCHANGED <<cCall, notCmp>>

\* compare_files when fs::metadata fails on a side: the error is returned.
CompareFilesErr ==
    /\ cPc = "idle" /\ cCall.op = "compare_files"
    /\ (cCall.left = None \/ cCall.right = None)
    /\ cPc' = "err"
    /\ UNCHANGED <<cCall, cResult, notCmp>>

\* compare_directories when every compare_files call it makes succeeds.
CompareDirectoriesOk ==
    /\ cPc = "idle" /\ cCall.op = "compare_directories"
    /\ \E r \in left_pass(cCall.left, cCall.right, cCall.mode, 1) :
          /\ ~r.err
          /\ cResult' = ComparisonResult_of(
                            r.diffs \o right_pass(cCall.left, cCall.right, 1))
    /\ cPc' = "ok"
    /\ UNCHANGED <<cCall, notCmp>>

\* compare_directories when a compare_files call fails: `?` returns the error.
CompareDirectoriesErr ==
    /\ cPc = "idle" /\ cCall.op = "compare_directories"
    /\ \E r \in left_pass(cCall.left, cCall.right, cCall.mode, 1) : r.err
    /\ cPc' = "err"
    /\ UNCHANGED <<cCall, cResult, notCmp>>

CmpNext ==
    \/ CompareFilesOk \/ CompareFilesErr
    \/ CompareDirectoriesOk \/ CompareDirectoriesErr

InitCompare ==
    CmpInit /\ HistIdle /\ FilterIdle /\ MonIdle /\ SearchIdle /\ ListIdle
    /\ HashIdle

SpecCompare == InitCompare /\ [][CmpNext]_vars

\* C10: every ComparisonResult returned by compare_files or
\* compare_directories has identical true exactly when its difference list
\* is empty, and total_differences equal to the length of that list.
C10_ResultConsistent ==
    cPc = "ok" =>
        /\ cResult.identical <=> (cResult.differences = <<>>)
        /\ cResult.total_differences = Len(cResult.differences)

\* C10 witness: compare_directories has returned a result with several
\* differences, among them differences of a compare_files call.
C10_Witness ==
    /\ cPc = "ok"
    /\ cCall.op = "compare_directories"
    /\ cResult.total_differences >= 2
    /\ ~cResult.identical
    /\ \E i \in 1..Len(cResult.differences) : cResult.differences[i].kind = "Size"

\* C11: compare_files(f, f, Binary) on a readable file f returns identical =
\* true and an empty difference list, whatever lengths the reads return.
C11_BinaryReflexive ==
    (/\ cPc = "ok" /\ cCall.op = "compare_files" /\ cCall.mode = "Binary"
     /\ cCall.left = cCall.right)
    => (cResult.identical /\ cResult.differences = <<>>)

\* Trees whose files can all be read.
AllReadable(t) ==
    \A i \in 1..Len(RelPaths) : t[RelPaths[i]] # Some(Unreadable)

\* C12: compare_directories(A, B, mode) with B a copy of A (same relative
\* paths, same kinds, same file contents) returns identical = true with no
\* differences.
C12_IdenticalCopy ==
    (/\ cPc = "ok" /\ cCall.op = "compare_directories"
     /\ cCall.left = cCall.right /\ AllReadable(cCall.left))
    => (cResult.identical /\ cResult.differences = <<>>)

\* C12 restricted to the text modes, where no read length matters.
C12_IdenticalCopy_TextModes ==
    (/\ cPc = "ok" /\ cCall.op = "compare_directories"
     /\ cCall.left = cCall.right /\ AllReadable(cCall.left)
     /\ cCall.mode # "Binary")
    => (cResult.identical /\ cResult.differences = <<>>)

\* g has the line structure of f and differs from it in the case of
\* letters only.
SameUpToCase(f, g) ==
    /\ Len(f) = Len(g)
    /\ \A i \in 1..Len(f) : LowerChar(f[i]) = LowerChar(g[i])

RECURSIVE Ascending(_)
Ascending(S) ==
    IF S = {} THEN <<>>
    ELSE LET m == CHOOSE x \in S : \A y \in S : x <= y
         IN  <<m>> \o Ascending(S \ {m})

\* The byte-wise differences of L and R over their common length, by
\* absolute offset.
BytewiseDiffs(L, R) ==
    LET offs == Ascending({i \in 0..(Min(Len(L), Len(R)) - 1) : L[i + 1] # R[i + 1]})
    IN  [k \in 1..Len(offs) |->
            [kind |-> "Binary", offset |-> offs[k],
             left |-> L[offs[k] + 1], right |-> R[offs[k] + 1]]]

IsBinaryDiff(d) == d.kind = "Binary"

\* C19: the Binary differences recorded for L and R are exactly the
\* positions below min(|L|, |R|) where the bytes differ, in ascending order
\* with absolute offsets, for every split of the reads into chunks.
C19_BinaryDiffsExact ==
    (cPc = "ok" /\ cCall.op = "compare_files" /\ cCall.mode = "Binary")
    => SelectSeq(cResult.differences, IsBinaryDiff)
         = BytewiseDiffs(Unwrap(cCall.left), Unwrap(cCall.right))

\* C20: when the sizes differ the difference list starts with the Size
\* difference, the differences of the selected comparison follow it, and
\* identical is false in every mode.
C20_SizeDiffFirst ==
    (/\ cPc = "ok" /\ cCall.op = "compare_files"
     /\ Len(Unwrap(cCall.left)) # Len(Unwrap(cCall.right)))
    => /\ ~cResult.identical
       /\ cResult.differences # <<>>
       /\ Head(cResult.differences)
            = [kind |-> "Size", left_size |-> Len(Unwrap(cCall.left)),
               right_size |-> Len(Unwrap(cCall.right))]
       /\ \A i \in 2..Len(cResult.differences) :
             cResult.differences[i].kind
                = (IF cCall.mode = "Binary" THEN "Binary" ELSE "Text")
       /\ ((cCall.left = Some(F_a) /\ cCall.right = Some(F_a_nl_b)
            /\ cCall.mode \in {"Text", "TextIgnoreCase"})
           => Len(cResult.differences) = 3)

\* C20 witness: files that differ in trailing whitespace only, compared
\* ignoring whitespace: the Size difference is the only one recorded.
C20_Witness ==
    /\ cPc = "ok" /\ cCall.op = "compare_files"
    /\ cCall.mode = "TextIgnoreWhitespace"
    /\ cCall.left = Some(F_a_nl) /\ cCall.right = Some(F_a_sp_nl)
    /\ Len(cResult.differences) = 1
    /\ ~cResult.identical

\* C18: in the recursive walk of compare_directories an entry that cannot be
\* read is skipped: the call does not return an error because of it.
C18_WalkSkipsUnreadable ==
    cCall.op = "compare_directories" => cPc # "err"

\* The n-th line of a file as read_line yields it, empty once the file is
\* exhausted.
LineAt(content, n) ==
    IF n <= Len(lines_of(content)) THEN lines_of(content)[n] ELSE <<>>

IsTextDiff(d) == d.kind = "Text"

\* C21: in the text modes, for every line position n up to the larger line
\* count exactly one Text difference with line = n is recorded if the
\* normalised n-th lines differ and none otherwise, no Text difference has
\* another line number, and the recorded strings are the original lines; for
\* "hello" and "world" in Text mode the result is identical = false with the
\* one difference (line 1, "hello", "world").
C21_TextDiffsPerLine ==
    (cPc = "ok" /\ cCall.op = "compare_files" /\ cCall.mode # "Binary")
    => LET L == Unwrap(cCall.left)
           R == Unwrap(cCall.right)
           text == SelectSeq(cResult.differences, IsTextDiff)
           maxline == IF Len(lines_of(L)) >= Len(lines_of(R))
                      THEN Len(lines_of(L)) ELSE Len(lines_of(R))
           at(n) == {k \in 1..Len(text) : text[k].line = n}
       IN  /\ \A k \in 1..Len(text) : text[k].line \in 1..maxline
           /\ \A n \in 1..maxline :
                IF processed(LineAt(L, n), cCall.mode)
                      # processed(LineAt(R, n), cCall.mode)
                THEN /\ Cardinality(at(n)) = 1
                     /\ \A k \in at(n) : /\ text[k].left = LineAt(L, n)
                                         /\ text[k].right = LineAt(R, n)
                ELSE at(n) = {}
           /\ (L = F_hello /\ R = F_world /\ cCall.mode = "Text")
                => cResult =
                     [identical |-> FALSE,
                      differences |-> <<[kind |-> "Text", line |-> 1,
                                         left |-> F_hello, right |-> F_world]>>,
                      total_differences |-> 1]

\* C21 witness: a comparison ignoring whitespace recorded a difference whose
\* original lines are not the normalised ones, and skipped an equal line.
C21_Witness ==
    /\ cPc = "ok" /\ cCall.op = "compare_files"
    /\ cCall.mode = "TextIgnoreWhitespace"
    /\ cCall.left = Some(F_a_nl_b) /\ cCall.right = Some(F_a_sp_nl)
    /\ \E k \in 1..Len(cResult.differences) :
          cResult.differences[k] =
             [kind |-> "Text", line |-> 2, left |-> <<"b">>, right |-> <<>>]
    /\ \A k \in 1..Len(cResult.differences) :
          cResult.differences[k].kind = "Text" => cResult.differences[k].line # 1

IsTypeDiff(d) == d.kind = "Type"
IsNotTypeDiff(d) == d.kind # "Type"

\* The difference lists compare_files can return for relative path rel of
\* two trees: the empty list alone unless rel is a regular file in both.
FileDiffsAt(Lt, Rt, rel, mode) ==
    IF /\ Lt[rel] # None /\ Rt[rel] # None
       /\ Unwrap(Lt[rel]).kind = "file" /\ Unwrap(Rt[rel]).kind = "file"
    THEN compare_files_diffs(Unwrap(Unwrap(Lt[rel]).content),
                             Unwrap(Unwrap(Rt[rel]).content), mode)
    ELSE {<<>>}

EqualUnderMode(L, R, mode) ==
    /\ Len(L) = Len(R)
    /\ IF mode = "Binary" THEN L = R
       ELSE \A n \in 1..Len(lines_of(L)) :
               processed(LineAt(L, n), mode) = processed(LineAt(R, n), mode)

\* C27: compare_directories returns identical = true only if both trees
\* have the same relative paths, every path has the same kind on both sides
\* and every file has equal content under the mode.
C27_IdenticalOnlyIfSame ==
    (cPc = "ok" /\ cCall.op = "compare_directories" /\ cResult.identical)
    => \A i \in 1..Len(RelPaths) :
          LET l == cCall.left[RelPaths[i]]
              r == cCall.right[RelPaths[i]]
          IN  /\ (l = None) <=> (r = None)
              /\ (l # None /\ r # None)
                   => /\ Unwrap(l).kind = Unwrap(r).kind
                      /\ Unwrap(l).kind = "file"
                           => EqualUnderMode(Unwrap(Unwrap(l).content),
                                             Unwrap(Unwrap(r).content),
                                             cCall.mode)

\* ------------------------------------------------- listing (spec)
ListInit ==
    /\ lDir \in ListDirs
    /\ lPc = "idle"
    /\ lIdx = 1
    /\ entries = <<>>

\* list_files(path) is called: the vector is empty, the walk starts.
ListCall ==
    /\ lPc = "idle"
    /\ lPc' = "walking"
    /\ lIdx' = 1
    /\ entries' = <<>>
    /\ UNCHANGED <<lDir, notList>>

\* The walk passes an entry it does not hand to the loop.
ListSkip ==
    /\ lPc = "walking" /\ lIdx <= Len(lDir.children)
    /\ ~listed(lDir.children[lIdx])
    /\ lIdx' = lIdx + 1
    /\ UNCHANGED <<lDir, lPc, entries, notList>>

\* One pass of the loop.
ListStep ==
    /\ lPc = "walking" /\ lIdx <= Len(lDir.children)
    /\ listed(lDir.children[lIdx])
    /\ LET r == list_entry(lDir.children[lIdx], entries)
       IN  /\ entries' = r.entries
           /\ lPc' = IF r.err THEN "err" ELSE "walking"
    /\ lIdx' = lIdx + 1
    /\ UNCHANGED <<lDir, notList>>

\* The walk is over: Ok(entries).
ListEnd ==
    /\ lPc = "walking" /\ lIdx > Len(lDir.children)
    /\ lPc' = "ok"
    /\ UNCHANGED <<lDir, lIdx, entries, notList>>

ListNext == ListCall \/ ListSkip \/ ListStep \/ ListEnd

InitList ==
    ListInit /\ HistIdle /\ FilterIdle /\ MonIdle /\ SearchIdle /\ CmpIdle
    /\ HashIdle

SpecList == InitList /\ [][ListNext]_vars

\* The immediate children that can be read, in the order of the walk.
GoodChild(entry) == entry.walk_ok /\ entry.depth = 1 /\ entry.meta_ok
GoodChildren(dir) ==
    LET good == SelectSeq(dir.children, GoodChild)
    IN  [i \in 1..Len(good) |-> good[i].path]

\* C17: list_files on a readable directory does not fail and returns every
\* immediate child that can be read, skipping the others; it fails only
\* when the directory itself cannot be read.
C17_ListSkipsBadChildren ==
    /\ lDir.readable => lPc # "err"
    /\ (lDir.readable /\ lPc = "ok") => entries = GoodChildren(lDir)
    /\ ~lDir.readable => lPc # "ok"

\* ------------------------------------------------- directory hash (spec)
HashInit ==
    /\ hCall \in [walk : HashWalks, algorithm : HashAlgorithms]
    /\ hPc = "idle"
    /\ hResult = HashResult_of(<<>>, "SHA256")

\* calculate_directory_hash when every file can be read.
DirectoryHashOk ==
    /\ hPc = "idle"
    /\ ~hash_walk(hCall.walk, 1, <<>>).err
    /\ hResult' = HashResult_of(hCall.walk, hCall.algorithm)
    /\ hPc' = "ok"
    /\ UNCHANGED <<hCall, notHash>>

\* calculate_directory_hash when a file cannot be opened or read: `?`
\* returns the error.
DirectoryHashErr ==
    /\ hPc = "idle"
    /\ hash_walk(hCall.walk, 1, <<>>).err
    /\ hPc' = "err"
    /\ UNCHANGED <<hCall, hResult, notHash>>

HashNext == DirectoryHashOk \/ DirectoryHashErr

InitHash ==
    HashInit /\ HistIdle /\ FilterIdle /\ MonIdle /\ SearchIdle /\ CmpIdle
    /\ ListIdle

SpecHash == InitHash /\ [][HashNext]_vars

\* The entries of the walk whose bytes are hashed.
IsHashedFile(e) == e.walk_ok /\ e.is_file

\* The bytes of the hashed files one after the other, and their total length.
RECURSIVE ConcatBytes(_)
ConcatBytes(files) ==
    IF files = <<>> THEN <<>>
    ELSE Unwrap(Head(files).bytes) \o ConcatBytes(Tail(files))

\* C23: the result holds the digest, under the algorithm asked for, of the
\* bytes of every file of the walk in traversal order, and as size the sum
\* of the sizes of exactly those files; a walk without files gives the
\* digest of the empty string and size 0.
C23_DirectoryDigestAndSize ==
    hPc = "ok"
    => LET files == SelectSeq(hCall.walk, IsHashedFile)
       IN  /\ hResult.algorithm = hCall.algorithm
           /\ hResult.hash = digest(hCall.algorithm, ConcatBytes(files))
           /\ hResult.size = Len(ConcatBytes(files))
           /\ files = <<>> => /\ hResult.hash = digest(hCall.algorithm, <<>>)
                              /\ hResult.size = 0

\* C23 for walks without symbolic links.
C23_DirectoryDigestAndSize_NoLinks ==
    (hPc = "ok" /\ \A i \in 1..Len(hCall.walk) : hCall.walk[i].kind # "symlink_to_file")
    => LET files == SelectSeq(hCall.walk, IsHashedFile)
       IN  /\ hResult.algorithm = hCall.algorithm
           /\ hResult.hash = digest(hCall.algorithm, ConcatBytes(files))
           /\ hResult.size = Len(ConcatBytes(files))

====
